---- MODULE Spec2Model ----
(***************************************************************************)
(* Book-Alchemy: a Flask application over two SQLite tables (authors,      *)
(* books).  The model holds the two tables, the request being answered,    *)
(* the response it got and the messages it flashed; every route of app.py  *)
(* is one action.  Text is a sequence of one-character strings, a Python   *)
(* value that may be None is a set holding at most one text.               *)
(***************************************************************************)
EXTENDS Integers, Sequences, FiniteSets

VARIABLES
    authors,      \* rows of table authors
    books,        \* rows of table books
    request,      \* the request handled last
    response,     \* what that request was answered with
    flashed,      \* the <<category, message>> pairs that request flashed
    old_authors,  \* table authors when that request arrived
    old_books,    \* table books when that request arrived
    pc,           \* per worker: where its home() deletion stands
    local         \* per worker: author_id captured by its home() deletion

vars == <<authors, books, request, response, flashed, old_authors, old_books, pc, local>>

----------------------------------------------------------------------------
(* Bounds of the model *)

\* highest authors.id the model lets the storage hand out
MaxAuthorId == 2
\* highest books.id the model lets the storage hand out
MaxBookId == 2
\* number of workers answering requests at the same time (SpecConc)
NumWorkers == 2

----------------------------------------------------------------------------
(* Text and Python values *)

\* characters in byte order (SQLite's BINARY collation)
Alphabet == <<" ", "+", "-", "0", "1", "2", "3", "4", "5", "6", "7", "8", "9", "A", "T", "a", "b", "t", "u", "x">>

Rank(c) == CHOOSE i \in 1..Len(Alphabet) : Alphabet[i] = c

Digits == <<"0", "1", "2", "3", "4", "5", "6", "7", "8", "9">>

IsDigit(c) == \E i \in 1..Len(Digits) : Digits[i] = c

DigitVal(c) == (CHOOSE i \in 1..Len(Digits) : Digits[i] = c) - 1

PyNone == {}

Str(t) == {t}

\* the text of a value that is not None
TextOf(v) == CHOOSE t \in v : TRUE

\* Python's `not v` for v a str or None
Falsy(v) == v = PyNone \/ v = Str(<<>>)

RECURSIVE LStrip(_)
LStrip(s) == IF s # <<>> /\ Head(s) = " " THEN LStrip(Tail(s)) ELSE s

RECURSIVE RStrip(_)
RStrip(s) == IF s # <<>> /\ s[Len(s)] = " " THEN RStrip(SubSeq(s, 1, Len(s) - 1)) ELSE s

\* str.strip()
Strip(s) == RStrip(LStrip(s))

\* the digits of int(s) once blanks and the sign are taken off
IntBody(s) == LET t == Strip(s) IN IF t # <<>> /\ Head(t) \in {"+", "-"} THEN Tail(t) ELSE t

\* int(s) raises no ValueError
IsIntText(s) == IntBody(s) # <<>> /\ \A i \in 1..Len(IntBody(s)) : IsDigit(IntBody(s)[i])

RECURSIVE DigitsVal(_)
DigitsVal(s) == IF s = <<>> THEN 0 ELSE 10 * DigitsVal(SubSeq(s, 1, Len(s) - 1)) + DigitVal(s[Len(s)])

\* int(s)
ParseInt(s) == LET t == Strip(s) IN IF t # <<>> /\ Head(t) = "-" THEN 0 - DigitsVal(IntBody(s)) ELSE DigitsVal(IntBody(s))

\* str(n) for n >= 0
RECURSIVE ToText(_)
ToText(n) == IF n < 10 THEN <<Digits[n + 1]>> ELSE ToText(n \div 10) \o <<Digits[(n % 10) + 1]>>

\* lower() on the alphabet of the model
LowerChar(c) == IF c = "A" THEN "a" ELSE IF c = "T" THEN "t" ELSE c

Lower(s) == [i \in 1..Len(s) |-> LowerChar(s[i])]

\* s holds q as a substring
Contains(s, q) == \E i \in 0..(Len(s) - Len(q)) : SubSeq(s, i + 1, i + Len(q)) = q

\* column.ilike("%q%")
ILike(s, q) == Contains(Lower(s), Lower(q))

\* s <= t in byte order
RECURSIVE TextLeq(_, _)
TextLeq(s, t) ==
    IF s = <<>> THEN TRUE
    ELSE IF t = <<>> THEN FALSE
    ELSE IF Head(s) = Head(t) THEN TextLeq(Tail(s), Tail(t))
    ELSE Rank(Head(s)) < Rank(Head(t))

----------------------------------------------------------------------------
(* Storage: data_models.py *)

Ids(rows) == {r.id : r \in rows}

RECURSIVE MaxOf(_)
MaxOf(S) == IF S = {} THEN 0 ELSE LET x == CHOOSE x \in S : TRUE IN LET m == MaxOf(S \ {x}) IN IF x > m THEN x ELSE m

\* INTEGER PRIMARY KEY without the AUTOINCREMENT keyword: largest rowid plus one
NextId(rows) == MaxOf(Ids(rows)) + 1

\* SQLite checks a FOREIGN KEY only after PRAGMA foreign_keys=ON, which the
\* application never issues
ForeignKeysEnforced == FALSE

\* Author(name=..., birth_date=..., date_of_death=...)
Author(id, name, birth_date, date_of_death) ==
    [id |-> id, name |-> name, birth_date |-> birth_date, date_of_death |-> date_of_death]

\* Book(isbn=..., title=..., publication_year=..., author_id=...)
Book(id, isbn, title, publication_year, author_id) ==
    [id |-> id, isbn |-> isbn, title |-> title, publication_year |-> publication_year, author_id |-> author_id]

\* books.isbn declared without unique=True
IsbnTakenNever(bks, isbn) == FALSE

\* the UNIQUE constraint on books.isbn would be broken by inserting isbn
IsbnTaken(bks, isbn) == \E b \in bks : b.isbn = isbn

\* the FOREIGN KEY books.author_id -> authors.id would be broken by author_id
AuthorMissing(aus, author_id) == author_id \notin Ids(aus)

\* Book.query.get(id) finds a row
HasBook(bks, id) == id \in Ids(bks)

\* Book.query.get(id)
GetBook(bks, id) == CHOOSE b \in bks : b.id = id

\* Book.query.filter_by(author_id=author_id).count()
CountBooksOf(bks, author_id) == Cardinality({b \in bks : b.author_id = author_id})

----------------------------------------------------------------------------
(* Requests and responses *)

\* request.args of a request without a query string
NoArgs == [search |-> PyNone, sort_by |-> PyNone, direction |-> PyNone]

\* request.form of a request without form fields
NoForm ==
    [delete_book_id |-> PyNone, name |-> PyNone, birthdate |-> PyNone, date_of_death |-> PyNone,
     isbn |-> PyNone, title |-> PyNone, publication_year |-> PyNone, author_id |-> PyNone]

Request(handler, method, args, form, book_id) ==
    [handler |-> handler, method |-> method, args |-> args, form |-> form, book_id |-> book_id]

\* dict.get(key, default)
GetOr(v, default) == IF v = PyNone THEN default ELSE TextOf(v)

\* redirect(url_for(endpoint))
Redirect(endpoint) ==
    [status |-> "redirect", target |-> endpoint, books |-> <<>>, authors |-> {}, search_query |-> <<>>]

\* render_template(template, books=..., authors=..., search_query=...)
Render(template, rows, aus, search_query) ==
    [status |-> "render", target |-> template, books |-> rows, authors |-> aus, search_query |-> search_query]

\* an exception no handler catches: the request is answered 500
Unhandled(exception) ==
    [status |-> "error", target |-> exception, books |-> <<>>, authors |-> {}, search_query |-> <<>>]

\* what a handler leaves behind: the tables, the flashed messages, the response
Result(bks, aus, msgs, resp) == [books |-> bks, authors |-> aus, flashed |-> msgs, response |-> resp]

----------------------------------------------------------------------------
(* Listing: home() GET and library_home() *)

\* Book.query.join(Author): a book row with the author row its author_id names
Joined(bks, aus) ==
    {[book |-> x[1], author |-> x[2]] : x \in {y \in bks \X aus : y[2].id = y[1].author_id}}

\* the filter on title and author name, skipped for an empty search
Filtered(rows, q) ==
    {r \in rows : q = <<>> \/ ILike(r.book.title, q) \/ ILike(r.author.name, q)}

SortKey(r, by_author) == IF by_author THEN r.author.name ELSE r.book.title

\* the orders order_by(...).all() may return rows in: ties in any order
Orderings(rows, by_author, desc) ==
    {s \in [1..Cardinality(rows) -> rows] :
        /\ \A i, j \in 1..Cardinality(rows) : i # j => s[i] # s[j]
        /\ \A i, j \in 1..Cardinality(rows) : i < j =>
              IF desc THEN TextLeq(SortKey(s[j], by_author), SortKey(s[i], by_author))
              ELSE TextLeq(SortKey(s[i], by_author), SortKey(s[j], by_author))}

\* the lists home() may pass to home.html
HomeListings(bks, aus, args) ==
    Orderings(Filtered(Joined(bks, aus), Strip(GetOr(args.search, <<>>))),
              GetOr(args.sort_by, "title") = "author",
              GetOr(args.direction, "asc") # "asc")

\* the lists library_home() may pass to home.html
LibraryListings(bks, aus, args) ==
    Orderings(Joined(bks, aus),
              GetOr(args.sort_by, "title") = "author",
              GetOr(args.direction, "asc") = "desc")

----------------------------------------------------------------------------
(* Deletion: home() POST and delete_book() *)

\* db.session.delete(book_to_delete); db.session.commit()
RemoveBook(bks, id) == {b \in bks : b.id # id}

\* the author is deleted when no book names it any more
CascadeAuthors(bks, aus, author_id) ==
    IF CountBooksOf(bks, author_id) = 0 THEN {a \in aus : a.id # author_id} ELSE aus

\* the else branch flashing the message of the if branch
BookNotFoundFlashesSuccess(bks, aus) ==
    Result(bks, aus, <<<<"success", "Book successfully deleted!">>>>, Redirect("home"))

\* the else branch of home(): Book.query.get() returned None
BookNotFound(bks, aus) ==
    Result(bks, aus, <<<<"error", "Book ID not found!">>>>, Redirect("home"))

\* the POST branch of home()
HomePostResult(bks, aus, form) ==
    IF Falsy(form.delete_book_id) THEN Result(bks, aus, <<>>, Redirect("home"))
    ELSE IF ~IsIntText(TextOf(form.delete_book_id))
    THEN Result(bks, aus, <<<<"error", "Invalid book ID!">>>>, Redirect("home"))
    ELSE LET id == ParseInt(TextOf(form.delete_book_id)) IN
         IF HasBook(bks, id)
         THEN LET author_id == GetBook(bks, id).author_id
                  left == RemoveBook(bks, id)
              IN Result(left, CascadeAuthors(left, aus, author_id),
                        <<<<"success", "Book successfully deleted!">>>>, Redirect("home"))
         ELSE BookNotFound(bks, aus)

\* delete_book(book_id): the name session is not defined in app.py, so the
\* statement that should delete the book raises NameError
DeleteBookResult(bks, aus, book_id) ==
    IF HasBook(bks, book_id)
    THEN Result(bks, aus, <<>>, Unhandled("NameError"))
    ELSE Result(bks, aus, <<<<"danger", "Book not found.">>>>, Redirect("home"))

----------------------------------------------------------------------------
(* Creation: add_author() and add_book() *)

\* the test of line 102 without its birth_date half
AddAuthorInvalidNameOnly(form) == Falsy(form.name)

\* if not name or not birth_date
AddAuthorInvalid(form) == Falsy(form.name) \/ Falsy(form.birthdate)

\* the POST branch of add_author()
AddAuthorPostResult(bks, aus, form) ==
    IF AddAuthorInvalid(form)
    THEN Result(bks, aus,
                <<<<"message", "Please insert all required dates.">>,
                  <<"success", "Author successfully added!">>>>,
                Redirect("add_author"))
    ELSE Result(bks,
                aus \cup {Author(NextId(aus), TextOf(form.name), form.birthdate, form.date_of_death)},
                <<<<"message", "Author successfully added!">>,
                  <<"success", "Author successfully added!">>>>,
                Redirect("add_author"))

\* if not isbn or not title or not publication_year or not author_id
AddBookInvalid(form) ==
    Falsy(form.isbn) \/ Falsy(form.title) \/ Falsy(form.publication_year) \/ Falsy(form.author_id)

\* what SQLite stores in an INTEGER column for a text of digits
IntegerAffinity(v) == DigitsVal(TextOf(v))

\* db.session.commit() of the new book raises IntegrityError
AddBookRejected(bks, aus, form) ==
    \/ IsbnTaken(bks, TextOf(form.isbn))
    \/ ForeignKeysEnforced /\ AuthorMissing(aus, IntegerAffinity(form.author_id))

\* the POST branch of add_book()
AddBookPostResult(bks, aus, form) ==
    IF AddBookInvalid(form)
    THEN Result(bks, aus, <<<<"message", "Please fill in all fields.">>>>, Redirect("add_book"))
    ELSE IF AddBookRejected(bks, aus, form)
    THEN Result(bks, aus, <<>>, Unhandled("IntegrityError"))
    ELSE Result(bks \cup {Book(NextId(bks), TextOf(form.isbn), TextOf(form.title),
                                IntegerAffinity(form.publication_year),
                                IntegerAffinity(form.author_id))},
                aus, <<<<"message", "Book successfully added!">>>>, Redirect("add_book"))

----------------------------------------------------------------------------
(* What the requests of the model carry *)

\* name, birthdate and date_of_death of the add_author forms
NameInputs == {PyNone, Str(<<>>), Str(<<"a">>)}

BirthdateInputs == {PyNone, Str(<<>>), Str(<<"1">>)}

DateOfDeathInputs == {PyNone}

\* <<isbn, title>> of the add_book forms
IsbnTitleInputs ==
    {<<Str(<<>>), Str(<<"t">>)>>, <<Str(<<"1">>), PyNone>>,
     <<Str(<<"1">>), Str(<<"t">>)>>, <<Str(<<"2">>), Str(<<"u">>)>>}

PublicationYearInputs == {Str(<<"7">>)}

\* author_id of the add_book forms: the ids the storage may hold and one it never holds
AuthorIdInputs == {Str(ToText(n)) : n \in 1..(MaxAuthorId + 1)}

\* delete_book_id of the forms posted to /
DeleteBookIdInputs ==
    {PyNone, Str(<<>>), Str(<<"x">>)} \cup {Str(ToText(n)) : n \in 1..(MaxBookId + 1)}

\* book_id of the paths /book/<book_id>/delete
BookIdInputs == 1..(MaxBookId + 1)

SearchInputs == {PyNone, Str(<<" ">>), Str(<<"T">>)}

SortByInputs == {PyNone, Str("author")}

DirectionInputs == {PyNone, Str("desc")}

Workers == 1..NumWorkers

NoRequest == Request("none", "GET", NoArgs, NoForm, 0)

NoResponse ==
    [status |-> "none", target |-> "", books |-> <<>>, authors |-> {}, search_query |-> <<>>]

----------------------------------------------------------------------------
(* The state machine: one request at a time *)

Init ==
    /\ authors = {}
    /\ books = {}
    /\ request = NoRequest
    /\ response = NoResponse
    /\ flashed = <<>>
    /\ old_authors = {}
    /\ old_books = {}
    /\ pc = [p \in Workers |-> "idle"]
    /\ local = [p \in Workers |-> [author_id |-> 0, request |-> NoRequest]]

\* a request answered in one piece
Handle(req, res) ==
    /\ request' = req
    /\ response' = res.response
    /\ flashed' = res.flashed
    /\ books' = res.books
    /\ authors' = res.authors
    /\ old_books' = books
    /\ old_authors' = authors
    /\ UNCHANGED <<pc, local>>

\* GET /
HomeGet ==
    \E search \in SearchInputs, sort_by \in SortByInputs, direction \in DirectionInputs :
        LET args == [search |-> search, sort_by |-> sort_by, direction |-> direction] IN
        \E rows \in HomeListings(books, authors, args) :
            Handle(Request("home", "GET", args, NoForm, 0),
                   Result(books, authors, <<>>,
                          Render("home.html", rows, {}, Strip(GetOr(search, <<>>)))))

\* POST /: the listing query of lines 28-49 runs first and its result is dropped
HomePost ==
    \E id \in DeleteBookIdInputs :
        LET form == [NoForm EXCEPT !.delete_book_id = id] IN
        Handle(Request("home", "POST", NoArgs, form, 0), HomePostResult(books, authors, form))

\* GET /add_author
AddAuthorGet ==
    Handle(Request("add_author", "GET", NoArgs, NoForm, 0),
           Result(books, authors, <<>>, Render("add_author.html", <<>>, {}, <<>>)))

\* POST /add_author
AddAuthorPost ==
    \E name \in NameInputs, birthdate \in BirthdateInputs, date_of_death \in DateOfDeathInputs :
        LET form == [NoForm EXCEPT !.name = name, !.birthdate = birthdate, !.date_of_death = date_of_death] IN
        /\ ~AddAuthorInvalid(form) => NextId(authors) <= MaxAuthorId
        /\ Handle(Request("add_author", "POST", NoArgs, form, 0), AddAuthorPostResult(books, authors, form))

\* GET /add_book
AddBookGet ==
    Handle(Request("add_book", "GET", NoArgs, NoForm, 0),
           Result(books, authors, <<>>, Render("add_book.html", <<>>, authors, <<>>)))

\* POST /add_book
AddBookPost ==
    \E it \in IsbnTitleInputs, publication_year \in PublicationYearInputs, author_id \in AuthorIdInputs :
        LET form == [NoForm EXCEPT !.isbn = it[1], !.title = it[2],
                                   !.publication_year = publication_year, !.author_id = author_id] IN
        /\ ~AddBookInvalid(form) => NextId(books) <= MaxBookId
        /\ Handle(Request("add_book", "POST", NoArgs, form, 0), AddBookPostResult(books, authors, form))

\* POST /clear_flash: the name session is not defined in app.py
ClearFlash ==
    Handle(Request("clear_flash", "POST", NoArgs, NoForm, 0),
           Result(books, authors, <<>>, Unhandled("NameError")))

\* GET /library
LibraryHome ==
    \E sort_by \in SortByInputs, direction \in DirectionInputs :
        LET args == [search |-> PyNone, sort_by |-> sort_by, direction |-> direction] IN
        \E rows \in LibraryListings(books, authors, args) :
            Handle(Request("library_home", "GET", args, NoForm, 0),
                   Result(books, authors, <<>>, Render("home.html", rows, {}, <<>>)))

\* POST /book/<book_id>/delete
DeleteBook ==
    \E book_id \in BookIdInputs :
        Handle(Request("delete_book", "POST", NoArgs, NoForm, book_id),
               DeleteBookResult(books, authors, book_id))

Next ==
    \/ HomeGet
    \/ HomePost
    \/ AddAuthorGet
    \/ AddAuthorPost
    \/ AddBookGet
    \/ AddBookPost
    \/ ClearFlash
    \/ LibraryHome
    \/ DeleteBook

Spec == Init /\ [][Next]_vars

----------------------------------------------------------------------------
(* The state machine: workers answering requests at the same time.  home()   *)
(* commits the deletion of the book, then counts the author's books and      *)
(* commits the deletion of the author: other requests run between the two.   *)

\* the form of a POST / names a book the table holds
NamesBook(bks, form) ==
    /\ ~Falsy(form.delete_book_id)
    /\ IsIntText(TextOf(form.delete_book_id))
    /\ HasBook(bks, ParseInt(TextOf(form.delete_book_id)))

\* POST / up to its first db.session.commit(), taken by the first idle worker
HomePostBegin(p) ==
    /\ pc[p] = "idle"
    /\ \A q \in Workers : q < p => pc[q] # "idle"
    /\ \E id \in DeleteBookIdInputs :
        LET form == [NoForm EXCEPT !.delete_book_id = id]
            req == Request("home", "POST", NoArgs, form, 0)
        IN IF NamesBook(books, form)
           THEN /\ books' = RemoveBook(books, ParseInt(TextOf(id)))
                /\ pc' = [pc EXCEPT ![p] = "book_committed"]
                /\ local' = [local EXCEPT ![p] = [author_id |-> GetBook(books, ParseInt(TextOf(id))).author_id,
                                                  request |-> req]]
                /\ request' = req
                /\ response' = NoResponse
                /\ flashed' = <<>>
                /\ old_books' = books
                /\ old_authors' = authors
                /\ UNCHANGED authors
           ELSE Handle(req, HomePostResult(books, authors, form))

\* POST / from the count of the remaining books to the redirect
HomePostFinish(p) ==
    /\ pc[p] = "book_committed"
    /\ authors' = CascadeAuthors(books, authors, local[p].author_id)
    /\ pc' = [pc EXCEPT ![p] = "idle"]
    /\ local' = [local EXCEPT ![p] = [author_id |-> 0, request |-> NoRequest]]
    /\ request' = local[p].request
    /\ response' = Redirect("home")
    /\ flashed' = <<<<"success", "Book successfully deleted!">>>>
    /\ old_books' = books
    /\ old_authors' = authors
    /\ UNCHANGED books

\* the worker is stopped between the two commits
Interrupt(p) ==
    /\ pc[p] = "book_committed"
    /\ pc' = [pc EXCEPT ![p] = "idle"]
    /\ local' = [local EXCEPT ![p] = [author_id |-> 0, request |-> NoRequest]]
    /\ request' = local[p].request
    /\ response' = Unhandled("Interrupted")
    /\ flashed' = <<>>
    /\ old_books' = books
    /\ old_authors' = authors
    /\ UNCHANGED <<books, authors>>

ConcNext ==
    \/ LibraryHome
    \/ AddAuthorPost
    \/ AddBookPost
    \/ DeleteBook
    \/ \E p \in Workers : HomePostBegin(p)
    \/ \E p \in Workers : HomePostFinish(p)
    \/ \E p \in Workers : Interrupt(p)

SpecConc == Init /\ [][ConcNext]_vars

----------------------------------------------------------------------------
(* Reading the request handled last *)

IsHomePost == request.handler = "home" /\ request.method = "POST"

\* POST / with a delete_book_id that int() accepts
IsHomeDeletion ==
    /\ IsHomePost
    /\ ~Falsy(request.form.delete_book_id)
    /\ IsIntText(TextOf(request.form.delete_book_id))

IsEndpointDeletion == request.handler = "delete_book"

IsDeletion == IsHomeDeletion \/ IsEndpointDeletion

\* the book id a deletion request names
DeletedId ==
    IF IsEndpointDeletion THEN request.book_id ELSE ParseInt(TextOf(request.form.delete_book_id))

IsAddAuthorPost == request.handler = "add_author" /\ request.method = "POST"

IsAddBookPost == request.handler = "add_book" /\ request.method = "POST"

\* add_book POST with all four fields present
IsFullAddBook ==
    /\ IsAddBookPost
    /\ ~Falsy(request.form.isbn) /\ ~Falsy(request.form.title)
    /\ ~Falsy(request.form.publication_year) /\ ~Falsy(request.form.author_id)

\* GET / with an empty search, or GET /library
IsFullListing ==
    /\ response.status = "render"
    /\ response.target = "home.html"
    /\ \/ request.handler = "library_home"
       \/ request.handler = "home" /\ request.method = "GET" /\ Strip(GetOr(request.args.search, <<>>)) = <<>>

TablesUnchanged == books = old_books /\ authors = old_authors

Flashed(message) == \E i \in 1..Len(flashed) : flashed[i][2] = message

FlashedCategory(category) == \E i \in 1..Len(flashed) : flashed[i][1] = category

FlashedSuccess == FlashedCategory("success")

FlashedNotFound == Flashed("Book ID not found!") \/ Flashed("Book not found.")

\* a flashed message that reports a failure
FlashedError ==
    \E i \in 1..Len(flashed) :
        flashed[i][1] \in {"error", "danger"} \/ flashed[i][2] \in {"Please fill in all fields.", "Please insert all required dates."}

\* success, not_found or other: what a list of flashed messages tells the user
OutcomeKind(msgs) ==
    IF \E i \in 1..Len(msgs) : msgs[i][1] = "success" THEN "success"
    ELSE IF \E i \in 1..Len(msgs) : msgs[i][2] \in {"Book ID not found!", "Book not found."} THEN "not_found"
    ELSE "other"

----------------------------------------------------------------------------
(* Claims *)

\* C1: a deletion, through POST / or POST /book/<id>/delete, of an existing
\* book b whose author a exists removes b; it removes a when b was a's only
\* book; it keeps a and a's other books as they were when a had two or more.
C1_DeletionCascades ==
    (IsDeletion /\ HasBook(old_books, DeletedId)
        /\ GetBook(old_books, DeletedId).author_id \in Ids(old_authors)) =>
        LET b == GetBook(old_books, DeletedId)
            a == b.author_id
        IN /\ b \notin books
           /\ CountBooksOf(old_books, a) = 1 => a \notin Ids(authors)
           /\ CountBooksOf(old_books, a) >= 2 =>
                /\ {x \in authors : x.id = a} = {x \in old_authors : x.id = a}
                /\ {x \in books : x.author_id = a} = {x \in old_books : x.author_id = a} \ {b}

\* C2: in every reachable state every book's author_id is the id of an author
\* in table authors.
C2_BooksReferenceAuthors == \A b \in books : b.author_id \in Ids(authors)

\* C3: no two books share an isbn, and an add_book whose isbn is already in
\* the table adds no book, reports no success and leaves both tables as they were.
C3_IsbnUnique ==
    /\ \A b1, b2 \in books : b1.isbn = b2.isbn => b1 = b2
    /\ (IsAddBookPost /\ ~Falsy(request.form.isbn)
            /\ \E b \in old_books : b.isbn = TextOf(request.form.isbn)) =>
            TablesUnchanged /\ ~Flashed("Book successfully added!")

\* C3, its case: a full add_book form arrived whose isbn a stored book carries
C3_Witness ==
    /\ IsFullAddBook
    /\ \E b \in old_books : b.isbn = TextOf(request.form.isbn)
    /\ response.status # "none"

\* the failures the handlers are meant to answer with a message
ExpectedFailure ==
    \/ IsAddBookPost /\ ~IsFullAddBook
    \/ IsFullAddBook /\ \E b \in old_books : b.isbn = TextOf(request.form.isbn)
    \/ IsFullAddBook /\ IntegerAffinity(request.form.author_id) \notin Ids(old_authors)
    \/ IsAddAuthorPost /\ (Falsy(request.form.name) \/ Falsy(request.form.birthdate))
    \/ IsHomePost /\ ~Falsy(request.form.delete_book_id) /\ ~IsIntText(TextOf(request.form.delete_book_id))
    \/ IsDeletion /\ ~HasBook(old_books, DeletedId)

\* C4: a full add_book form that breaks a storage constraint (isbn taken, or
\* author_id naming no author) is answered by a redirect with an error message
\* flashed, and no expected failure of any handler ends in an unhandled exception.
C4_ConstraintViolationSurfaced ==
    /\ (IsFullAddBook /\ (\/ \E b \in old_books : b.isbn = TextOf(request.form.isbn)
                          \/ IntegerAffinity(request.form.author_id) \notin Ids(old_authors))) =>
            response.status = "redirect" /\ FlashedError
    /\ ExpectedFailure => response.status # "error"

C6_InvalidAuthorNotWritten ==
    (IsAddAuthorPost /\ (Falsy(request.form.name) \/ Falsy(request.form.birthdate))) =>
        /\ Flashed("Please insert all required dates.")
        /\ authors = old_authors
        /\ Cardinality(authors) = Cardinality(old_authors)

\* C6, its case: a name arrived without a birthdate while authors were stored
C6_Witness ==
    /\ IsAddAuthorPost
    /\ ~Falsy(request.form.name)
    /\ Falsy(request.form.birthdate)
    /\ old_authors # {}
    /\ response.status = "redirect"

\* a worker has committed the deletion of an author's last book and the
\* author is still stored
OrphanPending(p) ==
    /\ pc[p] = "book_committed"
    /\ local[p].author_id \in Ids(authors)
    /\ CountBooksOf(books, local[p].author_id) = 0

\* C7: the deletion of a book and of its orphaned author is one atomic step:
\* from a state where an author's last book is gone and the author is not,
\* the only step taken is the one that removes the author.
C7_DeletionAtomic ==
    [][\A p \in Workers : OrphanPending(p) =>
            (pc'[p] = "idle" /\ local[p].author_id \notin Ids(authors'))]_vars

\* C8: POST /book/<id>/delete leaves the tables, the redirect and the kind of
\* message that POST / with delete_book_id=<id> leaves from the same tables.
C8_EndpointsEquivalent ==
    IsEndpointDeletion =>
        LET r == HomePostResult(old_books, old_authors,
                                [NoForm EXCEPT !.delete_book_id = Str(ToText(request.book_id))])
        IN /\ books = r.books
           /\ authors = r.authors
           /\ response = r.response
           /\ OutcomeKind(flashed) = OutcomeKind(r.flashed)

\* C9: the listing (GET / with an empty search, GET /library) holds every
\* stored book exactly once, shown with the author its author_id names, and
\* a listing changes no table.
C9_ListingShowsBooks ==
    /\ IsFullListing =>
            \A b \in books :
                /\ Cardinality({i \in 1..Len(response.books) : response.books[i].book = b}) = 1
                /\ \A i \in 1..Len(response.books) :
                        response.books[i].book = b => response.books[i].author.id = b.author_id
    /\ (request.handler \in {"home", "library_home"} /\ request.method = "GET") => TablesUnchanged

\* C10: an add_author POST flashes "Author successfully added!" exactly when
\* it inserted a row.
C10_SuccessIffInserted ==
    IsAddAuthorPost => (Flashed("Author successfully added!") <=> authors # old_authors)

====
